---- MODULE Spec2Model ----
(***************************************************************************)
(* aiopg/connection.py: the asyncio front-end over a psycopg2 connection   *)
(* in async mode.  The model holds the fields of one Connection object,    *)
(* the callbacks it has registered with the event loop for its descriptor, *)
(* the futures it has been given or has created, and the coroutines        *)
(* (connect() and cursor()) that wait on them.                             *)
(*                                                                         *)
(* The driver (psycopg2) is opaque: every poll() draws its outcome from    *)
(* PollOutcomes and isexecuted() draws a boolean.  The event loop is the   *)
(* asyncio loop: a registered reader/writer callback may be invoked at any *)
(* time, a coroutine suspended on a future is resumed in a later loop      *)
(* step than the one resolving the future, and an exception escaping a     *)
(* callback is handed by the loop to its exception handler.                *)
(***************************************************************************)
EXTENDS Naturals, Sequences, FiniteSets

\* ------------------------------------------------------------------ bounds

\* cursor() calls made on the connection
MaxCalls == 3
\* driver poll() calls recorded in the log
MaxPolls == 4
\* reports received by the loop's exception handler
MaxReports == 2

\* ---------------------------------------------------------------- constants

\* psycopg2.extensions poll states (line 5)
POLL_OK == "POLL_OK"
POLL_READ == "POLL_READ"
POLL_WRITE == "POLL_WRITE"
POLL_ERROR == "POLL_ERROR"
\* poll() returning a value that is none of the four
PollUnknown == "unknown"
\* poll() raising psycopg2.Warning or psycopg2.Error
PollRaises == "psycopg2.Error"
PollOutcomes == {POLL_OK, POLL_READ, POLL_WRITE, POLL_ERROR, PollUnknown, PollRaises}

\* Python's None, for _conn and _waiter
None == 0
\* the psycopg2 connection object held in _conn
Handle == 1
\* the call index of connect(); the n-th cursor() call has index n + 1.  A
\* call's index also names the future created for it.
OPEN == 1
Calls == 1..(MaxCalls + 1)

\* no exception raised
NoExc == "-"

VARIABLES
    _conn,      \* self._conn: Handle or None
    _waiter,    \* self._waiter: None or the index of the future in the slot
    fut,        \* state of each future: absent, unset, result, exception, cancelled
    reader,     \* loop.add_reader(fileno, _ready, 'reading') is registered
    writer,     \* loop.add_writer(fileno, _ready, 'writing') is registered
    log,        \* the driver's poll() calls: [w, action, state]
    sink,       \* number of reports to the loop's exception handler
    closes,     \* number of _conn.close() calls
    ncur,       \* number of _conn.cursor() calls
    ncalls,     \* number of cursor() calls made on the connection
    task        \* each call's coroutine: idle, suspended, or how it ended

vars == <<_conn, _waiter, fut, reader, writer, log, sink, closes, ncur, ncalls, task>>

\* The Connection object, the loop registrations and the driver's record, as
\* one value that the methods below transform.  raised is the exception a
\* method lets escape, NoExc if none.
self ==
    [_conn |-> _conn, _waiter |-> _waiter, fut |-> fut, reader |-> reader,
     writer |-> writer, log |-> log, sink |-> sink, closes |-> closes,
     ncur |-> ncur, raised |-> NoExc]

Raise(c, exc) == [c EXCEPT !.raised = exc]

\* ------------------------------------------------------------ asyncio.Future

\* Future.set_result / Future.set_exception on the future in the slot, then
\* the statement after it, self._waiter = None (lines 83-84, 88-89).  A future
\* that is not pending (its waiting task was cancelled) raises
\* InvalidStateError, and the clearing statement is not reached.
ResolveKeepsSlot(c, how) ==
    IF c.fut[c._waiter] = "unset"
    THEN [c EXCEPT !.fut[c._waiter] = how]
    ELSE Raise(c, "InvalidStateError")

Resolve(c, how) ==
    IF c.fut[c._waiter] = "unset"
    THEN [c EXCEPT !.fut[c._waiter] = how, !._waiter = None]
    ELSE Raise(c, "InvalidStateError")

\* ---------------------------------------------------------------- Connection

\* _fatal_error (lines 105-113).  The argument of call_exception_handler is a
\* dict display that reads self._protocol; no line of the class assigns
\* _protocol, so building the dict raises AttributeError before the handler
\* is called (line 107) and before self._force_close (line 113, a method the
\* class does not define) is reached.
_fatal_error(c, exc) ==
    Raise(c, "AttributeError")

\* _ready, lines 69-77: remove the registration that triggered the call.
\* Only None, 'writing' and 'reading' are ever passed (lines 63, 93, 97, 120).
DeregisterReaderOnly(c, action) ==
    IF action = "reading" THEN [c EXCEPT !.reader = FALSE]
    ELSE c

Deregister(c, action) ==
    IF action = "writing" THEN [c EXCEPT !.writer = FALSE]
    ELSE IF action = "reading" THEN [c EXCEPT !.reader = FALSE]
    ELSE c

\* _ready, lines 79-103, with the branch of line 90 resolving the signal
DispatchResolvesOnRead(c, action, state) ==
    LET p == [c EXCEPT !.log = Append(@, [w |-> c._waiter, action |-> action,
                                          state |-> state])]
    IN  IF state = PollRaises THEN Resolve(p, "exception")
        ELSE IF state = POLL_OK \/ state = POLL_READ THEN Resolve(p, "result")
        ELSE IF state = POLL_WRITE THEN [p EXCEPT !.writer = TRUE]
        ELSE IF state = POLL_ERROR THEN _fatal_error(p, "OperationalError")
        ELSE _fatal_error(p, "UnknownPollError")

\* _ready, lines 79-103: poll the driver and act on the outcome.
Dispatch(c, action, state) ==
    LET p == [c EXCEPT !.log = Append(@, [w |-> c._waiter, action |-> action,
                                          state |-> state])]
    IN  IF state = PollRaises THEN Resolve(p, "exception")
        ELSE IF state = POLL_OK THEN Resolve(p, "result")
        ELSE IF state = POLL_READ THEN [p EXCEPT !.reader = TRUE]
        ELSE IF state = POLL_WRITE THEN [p EXCEPT !.writer = TRUE]
        ELSE IF state = POLL_ERROR THEN _fatal_error(p, "OperationalError")
        ELSE _fatal_error(p, "UnknownPollError")

\* _ready (lines 65-103)
_ready(c, action, state) ==
    IF c._waiter = None THEN Raise(c, "AssertionError")
    ELSE Dispatch(Deregister(c, action), action, state)

\* _create_waiter without the check of line 129
CreateWaiterOverwrites(c, k) ==
    IF c._conn = None THEN Raise(c, "ConnectionClosedError")
    ELSE [c EXCEPT !._waiter = k, !.fut[k] = "unset"]

\* _create_waiter with the checks of lines 127 and 129 in the other order
CreateWaiterChecksSlotFirst(c, k) ==
    IF c._waiter # None THEN Raise(c, "RuntimeError")
    ELSE IF c._conn = None THEN Raise(c, "ConnectionClosedError")
    ELSE [c EXCEPT !._waiter = k, !.fut[k] = "unset"]

\* _create_waiter (lines 126-132), for the call with index k
_create_waiter(c, k) ==
    IF c._conn = None THEN Raise(c, "ConnectionClosedError")
    ELSE IF c._waiter # None THEN Raise(c, "RuntimeError")
    ELSE [c EXCEPT !._waiter = k, !.fut[k] = "unset"]

\* _poll, lines 123-124: the finally clause
PollFinally(c) == [c EXCEPT !._waiter = None]

\* _poll up to its suspension point (lines 116-122).  The result's field
\* suspended tells whether the coroutine now waits on the future in the slot;
\* otherwise raised tells how it ended.  After _ready has resolved the future
\* it has also cleared self._waiter, so line 122 evaluates "yield from None",
\* which raises TypeError inside the try.
_poll(c, state, executing) ==
    LET s == [c EXCEPT !.raised = NoExc] IN
    IF c._waiter = None
    THEN [c |-> Raise(s, "AssertionError"), suspended |-> FALSE]
    ELSE IF ~executing
    THEN [c |-> Raise(s, "AssertionError"), suspended |-> FALSE]
    ELSE LET r == _ready(s, "None", state) IN
         IF r.raised # NoExc THEN [c |-> r, suspended |-> FALSE]
         ELSE IF r._waiter = None
         THEN [c |-> PollFinally(Raise(r, "TypeError")), suspended |-> FALSE]
         ELSE [c |-> r, suspended |-> TRUE]

\* cursor (lines 134-142), up to the suspension point inside _poll.  The call
\* ends with the outcome of line 141; building the result object (line 142,
\* from a class this file does not hold) is not modelled.
cursor(c, k, state, executing) ==
    LET w == _create_waiter(c, k) IN
    IF w.raised # NoExc THEN [c |-> w, suspended |-> FALSE]
    ELSE _poll([w EXCEPT !.ncur = @ + 1], state, executing)

\* close without the test of lines 148-149
CloseUnguarded(c) ==
    [c EXCEPT !.reader = FALSE, !.writer = FALSE,
              !.closes = @ + 1, !._conn = None]

\* close without line 151
CloseKeepsWriter(c) ==
    IF c._conn = None THEN c
    ELSE [c EXCEPT !.reader = FALSE, !.closes = @ + 1, !._conn = None]

\* close without line 150
CloseKeepsReader(c) ==
    IF c._conn = None THEN c
    ELSE [c EXCEPT !.writer = FALSE, !.closes = @ + 1, !._conn = None]

\* close that also empties the slot
CloseClearsWaiter(c) ==
    IF c._conn = None THEN c
    ELSE [c EXCEPT !.reader = FALSE, !.writer = FALSE,
                   !.closes = @ + 1, !._conn = None, !._waiter = None]

\* close (lines 146-153)
close(c) ==
    IF c._conn = None THEN c
    ELSE [c EXCEPT !.reader = FALSE, !.writer = FALSE,
                   !.closes = @ + 1, !._conn = None]

\* Connection.__init__ (lines 52-63) with the waiter connect() passes
__init__(c, waiter, state) ==
    _ready([c EXCEPT !._conn = Handle, !._waiter = waiter], "None", state)

\* ------------------------------------------------------------------- actions

Commit(c) ==
    /\ _conn' = c._conn
    /\ _waiter' = c._waiter
    /\ fut' = c.fut
    /\ reader' = c.reader
    /\ writer' = c.writer
    /\ log' = c.log
    /\ sink' = c.sink
    /\ closes' = c.closes
    /\ ncur' = c.ncur
    /\ Len(c.log) <= MaxPolls
    /\ c.sink <= MaxReports

\* How a coroutine that waits on future f continues once f is done
Outcome(f) ==
    IF f = "result" THEN "ok"
    ELSE IF f = "exception" THEN PollRaises
    ELSE "CancelledError"

\* connect() (lines 23-39): create the waiter, construct the Connection,
\* wait on the waiter.
connect(state) ==
    /\ task[OPEN] = "idle"
    /\ LET c == __init__([self EXCEPT !.fut[OPEN] = "unset"], OPEN, state) IN
       /\ Commit(c)
       /\ task' = [task EXCEPT ![OPEN] =
                     IF c.raised # NoExc THEN c.raised
                     ELSE IF c.fut[OPEN] = "unset" THEN "suspended"
                     ELSE Outcome(c.fut[OPEN])]
    /\ UNCHANGED ncalls

\* A cursor() call on the connection connect() returned
Cursor(state, executing) ==
    /\ task[OPEN] = "ok"
    /\ ncalls < MaxCalls
    /\ LET k == ncalls + 2
           r == cursor(self, k, state, executing) IN
       /\ Commit(r.c)
       /\ task' = [task EXCEPT ![k] =
                     IF r.suspended THEN "suspended" ELSE r.c.raised]
    /\ ncalls' = ncalls + 1

\* The loop runs a registered callback; an exception escaping it is reported
\* to the loop's exception handler.
Callback(action, state) ==
    LET c == _ready(self, action, state) IN
    /\ Commit(IF c.raised # NoExc THEN [c EXCEPT !.sink = @ + 1] ELSE c)
    /\ UNCHANGED <<ncalls, task>>

ReadEvent(state) ==
    /\ reader
    /\ Callback("reading", state)

WriteEvent(state) ==
    /\ writer
    /\ Callback("writing", state)

\* The loop resumes a coroutine whose future is done.  connect() returns or
\* raises (lines 38-39); _poll runs its finally clause first (lines 122-124).
Resume(k) ==
    /\ task[k] = "suspended"
    /\ fut[k] \in {"result", "exception", "cancelled"}
    /\ Commit(IF k = OPEN THEN self ELSE PollFinally(self))
    /\ task' = [task EXCEPT ![k] = Outcome(fut[k])]
    /\ UNCHANGED ncalls

\* The caller's task is cancelled while it waits: Task.cancel cancels the
\* future the task waits on, which is still pending.  (Cancelling a task whose
\* future is already done changes only what that caller receives.)
Cancel(k) ==
    /\ task[k] = "suspended"
    /\ fut[k] = "unset"
    /\ fut' = [fut EXCEPT ![k] = "cancelled"]
    /\ UNCHANGED <<_conn, _waiter, reader, writer, log, sink, closes, ncur,
                   ncalls, task>>

\* close() on the connection connect() returned
Close ==
    /\ task[OPEN] = "ok"
    /\ Commit(close(self))
    /\ UNCHANGED <<ncalls, task>>

Init ==
    /\ _conn = None
    /\ _waiter = None
    /\ fut = [k \in Calls |-> "absent"]
    /\ reader = FALSE
    /\ writer = FALSE
    /\ log = <<>>
    /\ sink = 0
    /\ closes = 0
    /\ ncur = 0
    /\ ncalls = 0
    /\ task = [k \in Calls |-> "idle"]

Next ==
    \/ \E state \in PollOutcomes : connect(state)
    \/ \E state \in PollOutcomes, executing \in BOOLEAN : Cursor(state, executing)
    \/ \E state \in PollOutcomes : ReadEvent(state)
    \/ \E state \in PollOutcomes : WriteEvent(state)
    \/ \E k \in Calls : Resume(k)
    \/ \E k \in Calls : Cancel(k)
    \/ Close

Spec == Init /\ [][Next]_vars

\* ------------------------------------------------------------------- claims

CursorCalls == Calls \ {OPEN}

\* The polls made while the future of call k was in the slot
OpLog(k) == SelectSeq(log, LAMBDA e : e.w = k)

\* Call k is made in this step
Called(k) == task[k] = "idle" /\ task'[k] # "idle"

\* Call k's coroutine ends in this step
Ended(k) == task[k] \in {"idle", "suspended"} /\ task'[k] \notin {"idle", "suspended"}

\* C1 as stated: in every state in which a pending signal is set, a cursor()
\* call fails with the operation-in-progress error (RuntimeError) and leaves
\* the slot and the signal as they were.
C1_AsStated ==
    [][\A k \in CursorCalls :
         (_waiter # None /\ Called(k)) =>
           (task'[k] = "RuntimeError" /\ _waiter' = _waiter /\ fut' = fut)]_vars

\* C1 amended: in every state of an open connection (_conn not None) in which
\* a pending signal is set, a cursor() call fails with RuntimeError and leaves
\* the slot and every future as they were; the signal is never replaced.
C1_MutualExclusion ==
    [][\A k \in CursorCalls :
         (_conn # None /\ _waiter # None /\ Called(k)) =>
           (task'[k] = "RuntimeError" /\ _waiter' = _waiter /\ fut' = fut)]_vars

\* A cursor() call was refused while another call's signal is in the slot
C1_Witness ==
    \E k \in CursorCalls :
        /\ task[k] = "RuntimeError"
        /\ _waiter \in CursorCalls
        /\ fut[_waiter] = "unset"
        /\ _conn # None

Last(q) == q[Len(q)]

\* C2: when the polls of a cursor() call report needs-read on the seed poll and
\* then the error outcome on the read-readiness event, the caller is given the
\* error (its future holds an exception), the slot is cleared and the
\* connection is still open with its driver not closed.
C2_DriverErrorReachesCaller ==
    \A k \in CursorCalls :
        (/\ Len(OpLog(k)) = 2
         /\ OpLog(k)[1].action = "None" /\ OpLog(k)[1].state = POLL_READ
         /\ OpLog(k)[2].action = "reading" /\ OpLog(k)[2].state = POLL_ERROR
         /\ fut[k] # "cancelled"
         /\ closes = 0)
        => (/\ fut[k] = "exception"
            /\ task[k] \in {"suspended", PollRaises}
            /\ _waiter = None
            /\ _conn # None)

\* C3: after a poll that returned a value outside the four known outcomes the
\* connection is closed (_conn None, the driver closed once, no reader and no
\* writer registered) and the error sink has received exactly one report.
C3_UnknownOutcomeIsFatal ==
    (log # <<>> /\ Last(log).state = PollUnknown)
    => (/\ _conn = None
        /\ closes = 1
        /\ ~reader /\ ~writer
        /\ sink = 1)

\* The polls of call k are needs-read/needs-write outcomes, any number of
\* them, followed by done
ReadinessScript(k) ==
    /\ OpLog(k) # <<>>
    /\ Last(OpLog(k)).state = POLL_OK
    /\ \A i \in 1..(Len(OpLog(k)) - 1) : OpLog(k)[i].state \in {POLL_READ, POLL_WRITE}

\* C4: a cursor() call whose polls follow a readiness script of any length,
\* zero included, and whose wait is not cancelled, has its signal resolved with
\* success and returns success to its caller; until the next call the slot is
\* empty.
C4_ScriptCompletes ==
    \A k \in CursorCalls :
        (ReadinessScript(k) /\ fut[k] # "cancelled")
        => (/\ fut[k] = "result"
            /\ task[k] \in {"suspended", "ok"}
            /\ (k = ncalls + 1 => _waiter = None))

\* C5: when the last poll made for a call (connect() or cursor()) raised a
\* driver exception and the call's wait was not cancelled, the call's signal
\* holds that exception, the slot no longer holds the signal, and the caller
\* receives that exception.
C5_PollExceptionReachesCaller ==
    \A k \in Calls :
        (/\ OpLog(k) # <<>>
         /\ Last(OpLog(k)).state = PollRaises
         /\ fut[k] # "cancelled")
        => (/\ fut[k] = "exception"
            /\ _waiter # k
            /\ task[k] \in {"suspended", PollRaises})

\* connect() has not been abandoned, and nothing has been done with the
\* connection since
OnlyOpen == ncalls = 0 /\ closes = 0 /\ fut[OPEN] # "cancelled"

\* C6: when the constructor's poll reports needs-write, write interest (and
\* only it) is armed and connect() stays suspended; when the write event's
\* poll then reports done, that is the only event delivered, the signal is
\* resolved with success, the slot is empty, no interest is registered and
\* connect() returns the open connection.
C6_SuccessfulOpen ==
    (/\ OnlyOpen
     /\ log # <<>>
     /\ log[1].state = POLL_WRITE)
    => /\ Len(log) = 1 =>
            (/\ writer /\ ~reader
             /\ _waiter = OPEN
             /\ fut[OPEN] = "unset"
             /\ task[OPEN] = "suspended")
       /\ (Len(log) >= 2 /\ log[2].state = POLL_OK) =>
            (/\ Len(log) = 2
             /\ log[2].action = "writing"
             /\ fut[OPEN] = "result"
             /\ _waiter = None
             /\ ~writer /\ ~reader
             /\ _conn = Handle
             /\ task[OPEN] \in {"suspended", "ok"})

\* connect() has returned the connection after needs-write, then done
C6_Witness ==
    /\ OnlyOpen
    /\ Len(log) = 2
    /\ log[1].state = POLL_WRITE
    /\ log[2].state = POLL_OK
    /\ task[OPEN] = "ok"

Resolved(k) == fut[k] \in {"result", "exception"}

\* C7: a resolved signal is never resolved again or otherwise changed, it is
\* no longer in the slot, its caller once resumed is not resumed again, and a
\* cursor() call that installs its signal finds the slot empty.
C7_ResolutionExclusive ==
    [][\A k \in Calls :
         /\ Resolved(k) => (fut'[k] = fut[k] /\ _waiter # k /\ _waiter' # k)
         /\ task[k] \notin {"idle", "suspended"} => task'[k] = task[k]
         /\ (fut[k] = "absent" /\ fut'[k] # "absent") => _waiter = None]_vars

\* A second cursor() call installed its signal after the first call's signal
\* was resolved by a readiness event and its caller resumed
C7_Witness ==
    \E j, k \in CursorCalls :
        /\ j < k
        /\ Resolved(j)
        /\ task[j] \in {"ok", PollRaises}
        /\ \E i \in 1..Len(log) : log[i].w = j /\ log[i].action # "None"
        /\ fut[k] # "absent"

\* C8: read interest and write interest are never both registered.
C8_OneInterest ==
    ~(reader /\ writer)

\* C9: whenever a cursor() call that installed its signal gives control back
\* to its caller (by return, by an exception from the wait or from the seed
\* advance, or by cancellation; failed preconditions of _poll aside), the slot
\* is empty.
C9_PollExitClearsSlot ==
    [][\A k \in CursorCalls :
         (Ended(k) /\ fut'[k] # "absent" /\ task'[k] # "AssertionError")
         => _waiter' = None]_vars

\* C10: once close() has run, a cursor() call fails with ConnectionClosedError
\* and changes nothing: no signal is created, no interest registered, the
\* driver is not polled, asked for a cursor or closed.
C10_ClosedRefuses ==
    [][\A k \in CursorCalls :
         (closes > 0 /\ Called(k))
         => (/\ task'[k] = "ConnectionClosedError"
             /\ UNCHANGED <<_conn, _waiter, fut, reader, writer, log, sink,
                            closes, ncur>>)]_vars

\* A cursor() call was refused on a closed connection whose slot still holds
\* an unresolved signal
C10_Witness ==
    \E k \in CursorCalls :
        /\ task[k] = "ConnectionClosedError"
        /\ closes > 0
        /\ _waiter \in CursorCalls
        /\ fut[_waiter] = "unset"

\* A step in which close() closes the driver or empties _conn
Closing == closes' # closes \/ (_conn # None /\ _conn' = None)

\* C11: in every state in which the caller holds the connection, close()
\* called twice in a row gives the state that one call gives (_conn None, no
\* interest registered, the slot and every signal as before the first call);
\* the second call raises nothing, deregisters nothing and does not close the
\* driver again.
C11_IdempotentClose ==
    task[OPEN] = "ok" =>
        LET once == close(self)
            twice == close(once)
        IN  /\ twice = once
            /\ once.raised = NoExc /\ twice.raised = NoExc
            /\ once._conn = None
            /\ ~once.reader /\ ~once.writer
            /\ once._waiter = _waiter /\ once.fut = fut
            /\ once.closes <= 1
            /\ (_conn = None => once = self)

\* close() has run on a connection with interest armed for a suspended caller
C11_Witness ==
    /\ task[OPEN] = "ok"
    /\ _conn = None
    /\ closes = 1
    /\ \E k \in CursorCalls : task[k] = "suspended" /\ fut[k] = "unset" /\ _waiter = k

\* C12: a close() on an open connection, in whatever state, leaves neither
\* read nor write interest registered, closes the driver handle exactly once
\* and sets _conn to None; it raises nothing, an idle connection included.
C12_ClosePostcondition ==
    /\ [](task[OPEN] = "ok" => close(self).raised = NoExc)
    /\ [][Closing =>
            (/\ _conn = Handle /\ closes = 0
             /\ _conn' = None /\ closes' = 1
             /\ ~reader' /\ ~writer')]_vars

\* close() has run while write interest was armed
C12_Witness ==
    /\ closes = 1
    /\ _conn = None
    /\ log # <<>>
    /\ Last(log).state = POLL_WRITE
    /\ ~writer

\* C13: close() neither resolves, fails nor clears a signal that is in the
\* slot: the slot, every signal's state and every caller are after close() as
\* they were before.
C13_CloseLeavesPending ==
    [][Closing => (_waiter' = _waiter /\ fut' = fut /\ task' = task)]_vars

\* close() has run while a caller is suspended on the signal in the slot, and
\* the signal is still unresolved
C13_Witness ==
    /\ closes = 1
    /\ _waiter \in Calls
    /\ fut[_waiter] = "unset"
    /\ task[_waiter] = "suspended"
    /\ Last(log).state = POLL_READ

\* C14: whenever _ready can be invoked, a signal is in the slot, so that the
\* assertion of line 66 holds: no callback registered with the loop would,
\* if the loop ran it now, fail the assertion.
C14_ReadyPrecondition ==
    \A state \in PollOutcomes :
        /\ reader => _ready(self, "reading", state).raised # "AssertionError"
        /\ writer => _ready(self, "writing", state).raised # "AssertionError"

\* C15: in every state of an open connection, an empty slot (Idle) has no
\* read or write interest registered, and at most one interest is registered
\* while a signal is in the slot.
C15_StateShape ==
    _conn # None =>
        /\ _waiter = None => (~reader /\ ~writer)
        /\ _waiter # None => ~(reader /\ writer)

\* C16: in every state of an open connection that has polled its driver, read
\* interest is registered exactly if the most recent poll reported needs-read
\* and write interest exactly if it reported needs-write; after done, error or
\* a raised exception nothing is registered.
C16_InterestTracksDriver ==
    (_conn # None /\ log # <<>>) =>
        /\ reader <=> Last(log).state = POLL_READ
        /\ writer <=> Last(log).state = POLL_WRITE

\* A poll is made in this step
Polled == Len(log') = Len(log) + 1

\* C17: a signal becomes resolved only in a step that polls the driver for it
\* and gets done, the error outcome or a raised exception; a caller suspended
\* on a signal continues with its result only once the signal is resolved; and
\* a poll reporting needs-read or needs-write resolves no signal and resumes
\* no caller.
C17_NoEarlyResumption ==
    [][\A k \in Calls :
         /\ (~Resolved(k) /\ fut'[k] \in {"result", "exception"}) =>
              (/\ Polled
               /\ Last(log').w = k
               /\ Last(log').state \in {POLL_OK, POLL_ERROR, PollRaises})
         /\ (task[k] = "suspended" /\ task'[k] \in {"ok", PollRaises}) =>
              Resolved(k)
         /\ (Polled /\ Last(log').state \in {POLL_READ, POLL_WRITE}) =>
              (/\ fut'[k] \notin {"result", "exception"} \/ Resolved(k)
               /\ task[k] = "suspended" => task'[k] = "suspended"
               /\ Called(k) => task'[k] = "suspended")]_vars

\* A cursor() caller was suspended by needs-read and resumed with success
\* after the read event's poll reported done
C17_Witness ==
    \E k \in CursorCalls :
        /\ Len(OpLog(k)) = 2
        /\ OpLog(k)[1].state = POLL_READ
        /\ OpLog(k)[2].state = POLL_OK
        /\ task[k] = "ok"

\* C18: _ready never polls its way to set_result or set_exception (lines 83,
\* 88) on a signal that its abandoned caller has cancelled.
C18_OnlyLiveSignalsResolved ==
    [][\A k \in Calls :
         fut[k] = "cancelled" =>
            ~(/\ Polled
              /\ Last(log').w = k
              /\ Last(log').state \in {POLL_OK, PollRaises})]_vars

\* C19: once close() has run, the driver is not polled, not asked for a
\* cursor and not closed again, and no callback stays or becomes registered
\* through which _ready could be invoked.
C19_QuietAfterClose ==
    [][closes > 0 =>
         (/\ log' = log /\ ncur' = ncur /\ closes' = closes
          /\ ~reader /\ ~writer /\ ~reader' /\ ~writer'
          /\ _conn' = None)]_vars

\* After close() with read interest armed, the abandoned caller was cancelled
\* and a later cursor() call was refused
C19_Witness ==
    /\ closes = 1
    /\ Last(log).state = POLL_READ
    /\ \E k \in CursorCalls : task[k] = "CancelledError"
    /\ \E k \in CursorCalls : task[k] = "ConnectionClosedError"

====
